---------------------------- MODULE Spec2Model ----------------------------
(***************************************************************************)
(* Model of the hotel booking backend (src/main.py, src/schemas.py).       *)
(*                                                                         *)
(* The state is the "booking" and "notification" collections of the        *)
(* document store and, for every worker that serves requests, its position *)
(* in the handler, the request it serves, the values the handler has read  *)
(* so far and the response it has produced.  The handlers are plain        *)
(* functions served on a thread pool: every operation on the store is a    *)
(* step of its own, and the steps of the workers interleave.  Datetimes    *)
(* of a stay are day numbers (IsoDates gives their ISO-8601 spelling); a   *)
(* creation time is its day and whether it falls in the last second of     *)
(* that day, which the windows of the dashboard chart leave out.           *)
(* ObjectIds are the numbers 1, 2, ... in the order the store assigns them *)
(* (ObjectIdStr gives their 24-digit hexadecimal spelling).  The fields    *)
(* customer_name and customer_email are copied from the request into the   *)
(* document unread and are left out.                                       *)
(***************************************************************************)
EXTENDS Integers, Sequences, FiniteSets, TLC

VARIABLES
    store,         \* db["booking"]: the documents, in the order of their insertion
    notification,  \* db["notification"]: the documents; no handler writes them
    pc,            \* pc[p]: the store operation worker p makes next, "idle" or "done"
    body,          \* body[p]: the request worker p serves
    local,         \* local[p]: what dashboard has read so far
    resp           \* resp[p]: the response worker p has produced

vars == <<store, notification, pc, body, local, resp>>

-----------------------------------------------------------------------------
(* Bounds of the model *)

MaxDate == 3

MaxBookings == 2

Procs == {1, 2}

-----------------------------------------------------------------------------
(* Values *)

\* Python's None (payment_method: Optional[str] = Field(None, ...))
None == "<None>"

\* the ISO-8601 spelling of day n, as datetime.fromisoformat reads it
IsoDates ==
    <<"2024-06-01", "2024-06-02", "2024-06-03", "2024-06-04", "2024-06-05",
      "2024-06-06", "2024-06-07">>

Dates == 1..MaxDate

\* str(ObjectId): the n-th identifier the store assigns
ObjectIdStr ==
    <<"000000000000000000000001", "000000000000000000000002",
      "000000000000000000000003", "000000000000000000000004",
      "000000000000000000000005", "000000000000000000000006">>

\* datetime.utcnow().date(): the requests of a run are served on the last
\* day of the calendar
today == Len(IsoDates)

\* datetime.utcnow(), the values it gives on that day: a datetime is its day
\* and whether its time of day is after 23:59:59.000, in the last second
utcnow == [day : {today}, last_second : BOOLEAN]

\* the times of the specifications that vary the request, the workers or
\* the store instead of the clock
Midday == {now \in utcnow : ~now.last_second}

Statuses == {"Booked", "Paid", "Cleaning", "Cancelled"}

ROOM_TYPES ==
    <<[type |-> "Deluxe",      price |-> 180, beds |-> 1, capacity |-> 2],
      [type |-> "Executive",   price |-> 260, beds |-> 2, capacity |-> 3],
      [type |-> "Royal Suite", price |-> 480, beds |-> 2, capacity |-> 4]>>

\* str.lower() on the room type spellings of the model
lower ==
    [s \in {"Deluxe", "deluxe", "DELUXE", "Executive", "EXECUTIVE",
            "Royal Suite", "royal suite", "Penthouse", ""} |->
        CASE s \in {"Deluxe", "deluxe", "DELUXE"} -> "deluxe"
          [] s \in {"Executive", "EXECUTIVE"} -> "executive"
          [] s \in {"Royal Suite", "royal suite"} -> "royal suite"
          [] s = "Penthouse" -> "penthouse"
          [] OTHER -> ""]

-----------------------------------------------------------------------------
(* Inputs *)

RoomInputs == {"Deluxe", "deluxe", "Penthouse"}

GuestInputs == {0, 2, 3}

MethodInputs == {None, "", "Card"}

BookingRequest ==
    [op : {"book"}, room_type : RoomInputs, guests : GuestInputs,
     check_in : Dates, check_out : Dates, payment_method : MethodInputs]

\* the book requests of the specifications that vary the workers or the
\* store instead of the request
RaceRequest ==
    [op : {"book"}, room_type : RoomInputs, guests : {2, 3},
     check_in : Dates, check_out : Dates, payment_method : {None}]

StoreRequest ==
    [op : {"book"}, room_type : {"deluxe", "Penthouse"}, guests : {2, 3},
     check_in : Dates, check_out : Dates, payment_method : MethodInputs]

\* the book requests of the specification in which reads interleave with
\* writes
MixRequest ==
    [op : {"book"}, room_type : {"deluxe", "Penthouse"}, guests : {2, 3},
     check_in : Dates, check_out : Dates, payment_method : {None}]

PayMethods == {"EasyPaisa"}

IdInputs == {ObjectIdStr[i] : i \in 1..(MaxBookings + 1)} \cup {"not-an-id"}

DateInputs == {IsoDates[d] : d \in Dates} \cup {"June 1st"}

AvailabilityQuery ==
    [op : {"availability"}, room_type : {"deluxe", "EXECUTIVE", "Penthouse"},
     check_in : DateInputs, check_out : DateInputs, guests : {1, 3}]

\* the availability queries of the specification that varies the store
StoreQuery ==
    [op : {"availability"}, room_type : {"deluxe", "EXECUTIVE"},
     check_in : DateInputs, check_out : DateInputs, guests : {1, 3}]

\* the availability queries of the specification in which reads interleave
\* with writes
MixQuery ==
    [op : {"availability"}, room_type : {"deluxe"},
     check_in : {IsoDates[1]}, check_out : {IsoDates[MaxDate], "June 1st"},
     guests : {1, 3}]

PayQuery == [op : {"pay"}, method : PayMethods, booking_id : IdInputs]

DashboardQuery == [op |-> "dashboard"]

\* the request slot of a worker that serves no request
NoBody == [op |-> "none"]

\* the locals of dashboard before its first read
NoLocal == [total_bookings |-> 0, cleaning |-> 0, booked |-> 0, chart |-> <<>>]

-----------------------------------------------------------------------------
(* Responses *)

\* raise HTTPException(status_code=code, detail=detail), after `calls`
\* operations on the store
HTTPException(code, detail, calls) ==
    [code |-> code, detail |-> detail, db_calls |-> calls, json |-> [none |-> TRUE]]

\* a 200 response with the given JSON body, after `calls` operations on the store
Ok(json, calls) ==
    [code |-> 200, detail |-> "", db_calls |-> calls, json |-> json]

NoResp == [code |-> 0, detail |-> "", db_calls |-> 0, json |-> [none |-> TRUE]]

-----------------------------------------------------------------------------
(* Helpers of main.py *)

\* next((r for r in ROOM_TYPES if r["type"].lower() == room_type.lower()), None):
\* the indices of the matching catalog entries; the first one is the room
RoomMatches(room_type) ==
    {i \in 1..Len(ROOM_TYPES) : lower[ROOM_TYPES[i].type] = lower[room_type]}

FindRoom(room_type) ==
    LET m == RoomMatches(room_type)
    IN  ROOM_TYPES[CHOOSE i \in m : \A j \in m : i <= j]

\* Conflicts with the first comparison made against check_in
ConflictsStartsBefore(st, room_type, check_in, check_out) ==
    {i \in 1..Len(st) :
        /\ st[i].room_type = room_type
        /\ st[i].check_in < check_in
        /\ st[i].check_out > check_in}

\* Conflicts with closed intervals
ConflictsClosed(st, room_type, check_in, check_out) ==
    {i \in 1..Len(st) :
        /\ st[i].room_type = room_type
        /\ st[i].check_in <= check_out
        /\ st[i].check_out >= check_in}

\* Conflicts with a filter on the status
ConflictsNotCancelled(st, room_type, check_in, check_out) ==
    {i \in 1..Len(st) :
        /\ st[i].room_type = room_type
        /\ st[i].status # "Cancelled"
        /\ st[i].check_in < check_out
        /\ st[i].check_out > check_in}

\* the documents the count_documents filter of is_available matches
Conflicts(st, room_type, check_in, check_out) ==
    {i \in 1..Len(st) :
        /\ st[i].room_type = room_type
        /\ st[i].check_in < check_out
        /\ st[i].check_out > check_in}

is_available(st, room_type, check_in, check_out) ==
    Cardinality(Conflicts(st, room_type, check_in, check_out)) = 0

\* x or "Pending"
OrPending(x) == IF x = None \/ x = "" THEN "Pending" ELSE x

\* database.create_document("booking", data), called at the time now: the
\* store assigns the next identifier, stamps the creation time and appends
\* the document
create_document(st, data, now) ==
    Append(st, [_id |-> Len(st) + 1,
                room_type |-> data.room_type, guests |-> data.guests,
                check_in |-> data.check_in, check_out |-> data.check_out,
                payment_method |-> data.payment_method, status |-> data.status,
                created_at |-> now])

\* ObjectId(booking_id): the identifier a string spells, 0 when it raises
ObjectId(s) ==
    LET n == {i \in 1..Len(ObjectIdStr) : ObjectIdStr[i] = s}
    IN  IF n = {} THEN 0 ELSE CHOOSE i \in n : TRUE

\* datetime.fromisoformat(s): the day a string spells, 0 when it raises
fromisoformat(s) ==
    LET n == {i \in 1..Len(IsoDates) : IsoDates[i] = s}
    IN  IF n = {} THEN 0 ELSE CHOOSE i \in n : TRUE

-----------------------------------------------------------------------------
(* POST /book *)

\* ValidateBooking with the room looked up before the dates are compared
ValidateBookingRoomFirst(r) ==
    IF RoomMatches(r.room_type) = {}
    THEN HTTPException(404, "Room type not found", 0)
    ELSE IF r.check_in >= r.check_out
    THEN HTTPException(400, "Check-out must be after check-in", 0)
    ELSE IF r.guests > FindRoom(r.room_type).capacity
    THEN HTTPException(400, "Exceeds room capacity", 0)
    ELSE NoResp

\* ValidateBooking without the capacity check
ValidateBookingNoCapacity(r) ==
    IF r.check_in >= r.check_out
    THEN HTTPException(400, "Check-out must be after check-in", 0)
    ELSE IF RoomMatches(r.room_type) = {}
    THEN HTTPException(404, "Room type not found", 0)
    ELSE NoResp

\* book, the validation of the request: the exception it raises, or NoResp
ValidateBooking(r) ==
    IF r.check_in >= r.check_out
    THEN HTTPException(400, "Check-out must be after check-in", 0)
    ELSE IF RoomMatches(r.room_type) = {}
    THEN HTTPException(404, "Room type not found", 0)
    ELSE IF r.guests > FindRoom(r.room_type).capacity
    THEN HTTPException(400, "Exceeds room capacity", 0)
    ELSE NoResp

\* BookingData with the room type as the request spells it
BookingDataAsRequested(r, room) ==
    [room_type |-> r.room_type, guests |-> r.guests,
     check_in |-> r.check_in, check_out |-> r.check_out,
     payment_method |-> OrPending(r.payment_method), status |-> "Booked"]

\* book, the document it creates
BookingData(r, room) ==
    [room_type |-> room.type, guests |-> r.guests,
     check_in |-> r.check_in, check_out |-> r.check_out,
     payment_method |-> OrPending(r.payment_method), status |-> "Booked"]

\* book, the response of a successful request: the identifier is the one of
\* the document inserted last
BookingResponse(st) ==
    Ok([booking_id |-> ObjectIdStr[st[Len(st)]._id], status |-> "Booked"], 2)

\* the workers that are between the first and the last store operation of book
InFlight == {p \in Procs : pc[p] \in {"check", "insert"}}

\* book served by worker p, lines 141-151: the validation of the request,
\* before the first store operation
BookStart(p, r) ==
    /\ pc[p] = "idle"
    /\ body' = [body EXCEPT ![p] = r]
    /\ IF ValidateBooking(r) # NoResp
       THEN /\ resp' = [resp EXCEPT ![p] = ValidateBooking(r)]
            /\ pc' = [pc EXCEPT ![p] = "done"]
       ELSE /\ Len(store) + Cardinality(InFlight) < MaxBookings
            /\ pc' = [pc EXCEPT ![p] = "check"]
            /\ UNCHANGED resp
    /\ UNCHANGED <<store, notification, local>>

\* book served by worker p, lines 153-155: the count_documents of is_available
BookCheck(p) ==
    /\ pc[p] = "check"
    /\ IF ~is_available(store, FindRoom(body[p].room_type).type,
                        body[p].check_in, body[p].check_out)
       THEN /\ resp' = [resp EXCEPT
                           ![p] = HTTPException(409, "Selected dates not available", 1)]
            /\ pc' = [pc EXCEPT ![p] = "done"]
       ELSE /\ pc' = [pc EXCEPT ![p] = "insert"]
            /\ UNCHANGED resp
    /\ UNCHANGED <<store, notification, body, local>>

\* BookInsert with the availability checked again in the step that inserts
BookInsertGuarded(p, now) ==
    /\ pc[p] = "insert"
    /\ IF is_available(store, FindRoom(body[p].room_type).type,
                       body[p].check_in, body[p].check_out)
       THEN /\ store' = create_document(store,
                            BookingData(body[p], FindRoom(body[p].room_type)), now)
            /\ resp' = [resp EXCEPT ![p] = BookingResponse(store')]
       ELSE /\ store' = store
            /\ resp' = [resp EXCEPT
                           ![p] = HTTPException(409, "Selected dates not available", 2)]
    /\ pc' = [pc EXCEPT ![p] = "done"]
    /\ UNCHANGED <<notification, body, local>>

\* book served by worker p at the time now, lines 157-170: create_document
\* and the response
BookInsert(p, now) ==
    /\ pc[p] = "insert"
    /\ store' = create_document(store,
                    BookingData(body[p], FindRoom(body[p].room_type)), now)
    /\ resp' = [resp EXCEPT ![p] = BookingResponse(store')]
    /\ pc' = [pc EXCEPT ![p] = "done"]
    /\ UNCHANGED <<notification, body, local>>

-----------------------------------------------------------------------------
(* POST /pay *)

\* update_one as update_many with a filter that matches every document
update_every(st, id, method) ==
    [i \in 1..Len(st) |->
        [st[i] EXCEPT !.payment_method = method, !.status = "Paid"]]

\* update_one with a filter that also asks for the status "Booked"
update_if_booked(st, id, method) ==
    [i \in 1..Len(st) |->
        IF st[i]._id = id /\ st[i].status = "Booked"
        THEN [st[i] EXCEPT !.payment_method = method, !.status = "Paid"]
        ELSE st[i]]

\* update_one({"_id": _id}, {"$set": {"payment_method": method, "status": "Paid"}})
update_one(st, id, method) ==
    [i \in 1..Len(st) |->
        IF st[i]._id = id
        THEN [st[i] EXCEPT !.payment_method = method, !.status = "Paid"]
        ELSE st[i]]

matched_count(st, id) == Cardinality({i \in 1..Len(st) : st[i]._id = id})

\* pay served by worker p: its one store operation is update_one
pay(p, q) ==
    /\ pc[p] = "idle"
    /\ IF ObjectId(q.booking_id) = 0
       THEN /\ resp' = [resp EXCEPT ![p] = HTTPException(400, "Invalid booking id", 0)]
            /\ UNCHANGED store
       ELSE /\ store' = update_one(store, ObjectId(q.booking_id), q.method)
            /\ resp' = [resp EXCEPT ![p] =
                           IF matched_count(store, ObjectId(q.booking_id)) = 0
                           THEN HTTPException(404, "Booking not found", 1)
                           ELSE Ok([status |-> "Paid", booking_id |-> q.booking_id,
                                    method |-> q.method], 1)]
    /\ body' = [body EXCEPT ![p] = q]
    /\ pc' = [pc EXCEPT ![p] = "done"]
    /\ UNCHANGED <<notification, local>>

-----------------------------------------------------------------------------
(* GET /availability, GET /dashboard *)

AvailabilityResult(st, q) ==
    LET ci == fromisoformat(q.check_in)
        co == fromisoformat(q.check_out)
    IN  IF ci = 0 \/ co = 0
        THEN HTTPException(400, "Invalid date format. Use ISO format.", 0)
        ELSE IF ci >= co
        THEN HTTPException(400, "Check-out must be after check-in", 0)
        ELSE IF RoomMatches(q.room_type) = {}
        THEN HTTPException(404, "Room type not found", 0)
        ELSE IF q.guests > FindRoom(q.room_type).capacity
        THEN Ok([available |-> FALSE, reason |-> "Exceeds capacity"], 0)
        ELSE Ok([available |-> is_available(st, FindRoom(q.room_type).type, ci, co)], 1)

\* availability served by worker p: its one store operation is the
\* count_documents of is_available
availability(p, q) ==
    /\ pc[p] = "idle"
    /\ resp' = [resp EXCEPT ![p] = AvailabilityResult(store, q)]
    /\ body' = [body EXCEPT ![p] = q]
    /\ pc' = [pc EXCEPT ![p] = "done"]
    /\ UNCHANGED <<store, notification, local>>

\* count_documents({"status": s})
CountStatus(st, s) == Cardinality({i \in 1..Len(st) : st[i].status = s})

\* count_documents({"created_at": {"$gte": start, "$lte": end}}), start the
\* midnight of the day and end its 23:59:59: a document created in the last
\* second of the day, after 23:59:59.000, is outside the window
CountCreated(st, day) ==
    Cardinality({i \in 1..Len(st) :
        st[i].created_at.day = day /\ ~st[i].created_at.last_second})

\* list(find({}, {"_id": 0}).limit(10)): the first ten documents, without _id
find_notifications(nt) ==
    [i \in 1..(IF Len(nt) < 10 THEN Len(nt) ELSE 10) |->
        [title |-> nt[i].title, message |-> nt[i].message, level |-> nt[i].level]]

\* dashboard served by worker p, line 175: count_documents({})
dashboard_total(p) ==
    /\ pc[p] = "idle"
    /\ body' = [body EXCEPT ![p] = DashboardQuery]
    /\ local' = [local EXCEPT ![p] = [NoLocal EXCEPT !.total_bookings = Len(store)]]
    /\ pc' = [pc EXCEPT ![p] = "cleaning"]
    /\ UNCHANGED <<store, notification, resp>>

\* dashboard, line 176: count_documents({"status": "Cleaning"})
dashboard_cleaning(p) ==
    /\ pc[p] = "cleaning"
    /\ local' = [local EXCEPT ![p].cleaning = CountStatus(store, "Cleaning")]
    /\ pc' = [pc EXCEPT ![p] = "booked"]
    /\ UNCHANGED <<store, notification, body, resp>>

\* dashboard, line 177: count_documents({"status": "Booked"})
dashboard_booked(p) ==
    /\ pc[p] = "booked"
    /\ local' = [local EXCEPT ![p].booked = CountStatus(store, "Booked")]
    /\ pc' = [pc EXCEPT ![p] = "chart"]
    /\ UNCHANGED <<store, notification, body, resp>>

\* dashboard, lines 182-187: one iteration of the loop over range(7), with
\* its count_documents
dashboard_chart(p) ==
    /\ pc[p] = "chart"
    /\ LET i == Len(local[p].chart)
           day == today - (6 - i)
       IN  /\ local' = [local EXCEPT ![p].chart =
                           Append(@, [date |-> IsoDates[day],
                                      bookings |-> CountCreated(store, day)])]
           /\ pc' = [pc EXCEPT ![p] = IF i = 6 THEN "notifications" ELSE "chart"]
    /\ UNCHANGED <<store, notification, body, resp>>

\* dashboard, lines 189-199: the find on the notifications and the response
dashboard_notifications(p) ==
    /\ pc[p] = "notifications"
    /\ resp' = [resp EXCEPT ![p] =
                   Ok([summary |-> [total_bookings |-> local[p].total_bookings,
                                    booked |-> local[p].booked,
                                    cleaning |-> local[p].cleaning],
                       chart |-> local[p].chart,
                       notifications |-> find_notifications(notification)],
                      3 + Len(local[p].chart) + 1)]
    /\ local' = [local EXCEPT ![p] = NoLocal]
    /\ pc' = [pc EXCEPT ![p] = "done"]
    /\ UNCHANGED <<store, notification, body>>

\* the response of worker p is sent; the worker is free for the next request
Reply(p) ==
    /\ pc[p] = "done"
    /\ pc' = [pc EXCEPT ![p] = "idle"]
    /\ body' = [body EXCEPT ![p] = NoBody]
    /\ resp' = [resp EXCEPT ![p] = NoResp]
    /\ UNCHANGED <<store, notification, local>>

-----------------------------------------------------------------------------
(* Specifications *)

\* the documents of the notification collection
StoredNotifications ==
    <<[_id |-> 1, title |-> "Housekeeping", message |-> "Room 12 is ready",
       level |-> "info"]>>

Init ==
    /\ store = <<>>
    /\ notification = StoredNotifications
    /\ pc = [p \in Procs |-> "idle"]
    /\ body = [p \in Procs |-> NoBody]
    /\ local = [p \in Procs |-> NoLocal]
    /\ resp = [p \in Procs |-> NoResp]

\* the worker of the specifications in which the requests run one after another
Worker == CHOOSE p \in Procs : \A q \in Procs : p <= q

\* the worker whose reads interleave with the writes of Worker
Reader == CHOOSE p \in Procs : p # Worker

\* requests run one after another: one worker serves them, each to its
\* response before the next one starts
Next ==
    \/ \E r \in BookingRequest : BookStart(Worker, r)
    \/ BookCheck(Worker)
    \/ \E now \in Midday : BookInsert(Worker, now)
    \/ \E q \in PayQuery : pay(Worker, q)
    \/ \E q \in AvailabilityQuery : availability(Worker, q)
    \/ dashboard_total(Worker)
    \/ dashboard_cleaning(Worker)
    \/ dashboard_booked(Worker)
    \/ dashboard_chart(Worker)
    \/ dashboard_notifications(Worker)
    \/ Reply(Worker)

Spec == Init /\ [][Next]_vars

\* the book requests of the workers interleave at their store operations
RaceNext ==
    \/ \E p \in Procs, r \in RaceRequest : BookStart(p, r)
    \/ \E p \in Procs : BookCheck(p)
    \/ \E p \in Procs, now \in Midday : BookInsert(p, now)
    \/ \E p \in Procs : Reply(p)

RaceSpec == Init /\ [][RaceNext]_vars

\* the requests of the two workers interleave at their store operations: one
\* worker books, the other serves the dashboard, both pay and ask for the
\* availability
MixNext ==
    \/ \E r \in MixRequest : BookStart(Worker, r)
    \/ BookCheck(Worker)
    \/ \E now \in utcnow : BookInsert(Worker, now)
    \/ \E p \in Procs, q \in PayQuery : pay(p, q)
    \/ \E p \in Procs, q \in MixQuery : availability(p, q)
    \/ dashboard_total(Reader)
    \/ dashboard_cleaning(Reader)
    \/ dashboard_booked(Reader)
    \/ dashboard_chart(Reader)
    \/ dashboard_notifications(Reader)
    \/ \E p \in Procs : Reply(p)

MixSpec == Init /\ [][MixNext]_vars

\* the store as other writers may have left it: the housekeeping and
\* cancellation workflows set the statuses "Cleaning" and "Cancelled"
\* (schemas.py, Booking.status), no request of main.py does
StoredBooking ==
    {[_id |-> 1, room_type |-> ROOM_TYPES[i].type, guests |-> 1,
      check_in |-> ci, check_out |-> co, payment_method |-> "Pending",
      status |-> s, created_at |-> [day |-> today - 1, last_second |-> l]] :
        i \in 1..Len(ROOM_TYPES), ci \in Dates, co \in Dates, s \in Statuses,
        l \in BOOLEAN}

StoreInit ==
    /\ store \in {<<>>} \cup {<<b>> : b \in {x \in StoredBooking : x.check_in < x.check_out}}
    /\ notification = StoredNotifications
    /\ pc = [p \in Procs |-> "idle"]
    /\ body = [p \in Procs |-> NoBody]
    /\ local = [p \in Procs |-> NoLocal]
    /\ resp = [p \in Procs |-> NoResp]

StoreNext ==
    \/ \E r \in StoreRequest : BookStart(Worker, r)
    \/ BookCheck(Worker)
    \/ \E now \in Midday : BookInsert(Worker, now)
    \/ \E q \in PayQuery : pay(Worker, q)
    \/ \E q \in StoreQuery : availability(Worker, q)
    \/ dashboard_total(Worker)
    \/ dashboard_cleaning(Worker)
    \/ dashboard_booked(Worker)
    \/ dashboard_chart(Worker)
    \/ dashboard_notifications(Worker)
    \/ Reply(Worker)

StoreSpec == StoreInit /\ [][StoreNext]_vars

-----------------------------------------------------------------------------
(* Properties *)

CatalogTypes == {ROOM_TYPES[i].type : i \in 1..Len(ROOM_TYPES)}

CapacityOf(t) == ROOM_TYPES[CHOOSE i \in 1..Len(ROOM_TYPES) : ROOM_TYPES[i].type = t].capacity

\* the request names a room type of the catalog, in whatever letter case
Known(r) == \E t \in CatalogTypes : lower[t] = lower[r.room_type]

\* the catalog's spelling of the room type the request names
TypeOf(r) == CHOOSE t \in CatalogTypes : lower[t] = lower[r.room_type]

\* the nights of the half-open interval [check_in, check_out)
Nights(b) == b.check_in..(b.check_out - 1)

\* the documents of st for room type t that share a night with r
Overlapping(st, t, r) ==
    {i \in 1..Len(st) : st[i].room_type = t /\ Nights(st[i]) \cap Nights(r) # {}}

\* the worker has served a request of the kind op and holds its response
Served(op) == pc[Worker] = "done" /\ body[Worker].op = op

\* the step in which the worker serves a request of the kind op that makes
\* at most one store operation
Serves(op) == pc[Worker] = "idle" /\ pc'[Worker] = "done" /\ body'[Worker].op = op

\* worker p has served a book request and holds its response
Booked(p) == pc[p] = "done" /\ body[p].op = "book"

\* the request is one that passes the validation of book
Valid(r) ==
    /\ r.check_in < r.check_out
    /\ Known(r)
    /\ r.guests <= CapacityOf(TypeOf(r))

\* a step of worker p
Steps(p) ==
    <<pc[p], body[p], local[p], resp[p]>> # <<pc'[p], body'[p], local'[p], resp'[p]>>

\* the step in which worker p produces its response
Finishes(p) == pc[p] # "done" /\ pc'[p] = "done"

\* C1: when requests run one after another, no two stored bookings of the same
\* room type that are not Cancelled have overlapping intervals
C1_NoOverlap ==
    \A i, j \in 1..Len(store) :
        ( /\ i # j
          /\ store[i].room_type = store[j].room_type
          /\ store[i].status # "Cancelled"
          /\ store[j].status # "Cancelled" )
        => ~( /\ store[i].check_in < store[j].check_out
              /\ store[i].check_out > store[j].check_in )

\* two bookings of one room type, one of them paid
C1_Witness ==
    \E i, j \in 1..Len(store) :
        /\ i # j
        /\ store[i].room_type = store[j].room_type
        /\ store[i].status = "Paid"
        /\ store[j].status = "Booked"

\* C2: a worker that has passed the availability check inserts its booking
\* whatever the store holds by then: nothing guards the insert
C2_CheckedThenInserted ==
    [][\A p \in Procs :
          (pc[p] = "insert" /\ pc'[p] # "insert")
          => /\ Len(store') = Len(store) + 1
             /\ store'[Len(store')].room_type = TypeOf(body[p])
             /\ store'[Len(store')].check_in = body[p].check_in
             /\ store'[Len(store')].check_out = body[p].check_out
             /\ resp'[p].code = 200]_vars

\* both workers passed the check and inserted: the store holds two
\* overlapping bookings of one room type
C2_DoubleBooking ==
    \E i, j \in 1..Len(store) :
        /\ i # j
        /\ store[i].room_type = store[j].room_type
        /\ store[i].check_in < store[j].check_out
        /\ store[i].check_out > store[j].check_in

\* C3: a book request with valid dates and guests within capacity, served
\* after the ones before it, succeeds if and only if no stored booking of its
\* room type overlaps its interval: it reaches the availability check, passes
\* it exactly when nothing overlaps, and what it has found free is still free
\* when it inserts; it then inserts exactly one booking with status "Booked"
\* and the requested payment method, "Pending" when none (None or the empty
\* string) is given; otherwise it fails with 409
C3_BookSucceedsIffFree ==
    [][/\ ( /\ pc[Worker] = "idle" /\ pc'[Worker] # "idle"
            /\ body'[Worker].op = "book" /\ Valid(body'[Worker]) )
          => pc'[Worker] = "check" /\ store' = store
       /\ pc[Worker] = "check"
          => LET r == body[Worker]
             IN  IF Overlapping(store, TypeOf(r), r) = {}
                 THEN pc'[Worker] = "insert" /\ store' = store
                 ELSE /\ pc'[Worker] = "done"
                      /\ resp'[Worker].code = 409
                      /\ resp'[Worker].detail = "Selected dates not available"
                      /\ store' = store
       /\ pc[Worker] = "insert"
          => LET r == body[Worker]
                 n == Len(store)
             IN  /\ Overlapping(store, TypeOf(r), r) = {}
                 /\ pc'[Worker] = "done"
                 /\ resp'[Worker].code = 200
                 /\ resp'[Worker].json.status = "Booked"
                 /\ Len(store') = n + 1
                 /\ SubSeq(store', 1, n) = store
                 /\ store'[n + 1].room_type = TypeOf(r)
                 /\ store'[n + 1].check_in = r.check_in
                 /\ store'[n + 1].check_out = r.check_out
                 /\ store'[n + 1].guests = r.guests
                 /\ store'[n + 1].status = "Booked"
                 /\ store'[n + 1].payment_method =
                      (IF r.payment_method \in {None, ""}
                       THEN "Pending" ELSE r.payment_method)]_vars

\* the scenario: a room type booked for [D1,D2) and then for [D2,D3), the
\* second request given no payment method
C3_Witness ==
    /\ Served("book")
    /\ resp[Worker].code = 200
    /\ body[Worker].payment_method = None
    /\ Len(store) = 2
    /\ store[1].room_type = store[2].room_type
    /\ store[1].check_out = store[2].check_in
    /\ store[2].payment_method = "Pending"

\* C4: book reports the first failure in the order dates, room type,
\* capacity, availability, also when requests interleave: a wrong date order
\* is reported before any store operation, whatever the room type and the
\* guest count are; only a request that passes the three validations reaches
\* the availability check, which refuses it when a stored booking overlaps
C4_ValidationOrder ==
    [][\A p \in Procs :
          /\ (pc[p] = "idle" /\ pc'[p] # "idle" /\ body'[p].op = "book")
             => LET r == body'[p]
                    a == resp'[p]
                IN  IF r.check_in >= r.check_out
                    THEN /\ pc'[p] = "done"
                         /\ a.code = 400
                         /\ a.detail = "Check-out must be after check-in"
                         /\ a.db_calls = 0
                    ELSE IF ~Known(r)
                    THEN /\ pc'[p] = "done"
                         /\ a.code = 404 /\ a.detail = "Room type not found"
                    ELSE IF r.guests > CapacityOf(TypeOf(r))
                    THEN /\ pc'[p] = "done"
                         /\ a.code = 400 /\ a.detail = "Exceeds room capacity"
                    ELSE pc'[p] = "check" /\ a = NoResp
          /\ (pc[p] = "check" /\ pc'[p] # "check")
             => IF Overlapping(store, TypeOf(body[p]), body[p]) # {}
                THEN /\ pc'[p] = "done"
                     /\ resp'[p].code = 409
                     /\ resp'[p].detail = "Selected dates not available"
                ELSE pc'[p] = "insert" /\ resp'[p] = NoResp]_vars

\* a request with a wrong date order, an unknown room type and three guests
\* is answered with the date error, and a request for taken dates with the
\* conflict
C4_Witness ==
    \E p, q \in Procs :
        /\ Booked(p)
        /\ body[p].check_in >= body[p].check_out
        /\ ~Known(body[p])
        /\ body[p].guests = 3
        /\ resp[p].detail = "Check-out must be after check-in"
        /\ Booked(q)
        /\ resp[q].code = 409

\* C5 as stated: a book request with more guests than the capacity of its
\* room type fails with "Exceeds room capacity", whatever the dates are
C5_AsStated ==
    \A p \in Procs :
        ( /\ Booked(p)
          /\ Known(body[p])
          /\ body[p].guests > CapacityOf(TypeOf(body[p])) )
        => resp[p].detail = "Exceeds room capacity"

\* C5, amended: a book request with check_in < check_out and more guests than
\* the capacity of its room type fails with "Exceeds room capacity", whatever
\* the store holds
C5_CapacityExceeded ==
    \A p \in Procs :
        ( /\ Booked(p)
          /\ body[p].check_in < body[p].check_out
          /\ Known(body[p])
          /\ body[p].guests > CapacityOf(TypeOf(body[p])) )
        => /\ resp[p].code = 400
           /\ resp[p].detail = "Exceeds room capacity"

\* too many guests for dates that are taken, while the other worker is
\* between its check and its insert
C5_Witness ==
    \E p, q \in Procs :
        /\ Booked(p)
        /\ resp[p].detail = "Exceeds room capacity"
        /\ Len(store) = 1
        /\ Overlapping(store, TypeOf(body[p]), body[p]) # {}
        /\ pc[q] = "insert"

\* C6: for a request with check_in < check_out, the availability is true if
\* and only if no stored booking of exactly that room type has
\* check_in < requested check_out and check_out > requested check_in,
\* whatever the statuses of the stored bookings are
C6_AvailableIffNoConflict ==
    LET q == body[Worker]
        ci == fromisoformat(q.check_in)
        co == fromisoformat(q.check_out)
    IN  ( /\ Served("availability")
          /\ ci # 0 /\ co # 0 /\ ci < co
          /\ Known(q)
          /\ q.guests <= CapacityOf(TypeOf(q)) )
        => /\ resp[Worker].code = 200
           /\ resp[Worker].json.available =
                ~ \E i \in 1..Len(store) :
                     /\ store[i].room_type = TypeOf(q)
                     /\ store[i].check_in < co
                     /\ store[i].check_out > ci

\* a cancelled booking blocks its dates
C6_Witness ==
    /\ Served("availability")
    /\ resp[Worker].code = 200
    /\ resp[Worker].json = [available |-> FALSE]
    /\ Len(store) = 1
    /\ store[1].status = "Cancelled"
    /\ store[1].room_type = TypeOf(body[Worker])

\* C7: every step of a request leaves the store unchanged, but the step in
\* which a book succeeds, which appends one booking and leaves the others
\* unchanged, and the step in which a pay succeeds, which changes no booking
\* but the one it names; so a failed request and every availability or
\* dashboard request leave the store as it is, also while the writes of
\* another worker interleave
C7_Frame ==
    [][\A p \in Procs :
          Steps(p)
          => IF Finishes(p) /\ resp'[p].code = 200 /\ body'[p].op = "book"
             THEN /\ Len(store') = Len(store) + 1
                  /\ SubSeq(store', 1, Len(store)) = store
             ELSE IF Finishes(p) /\ resp'[p].code = 200 /\ body'[p].op = "pay"
             THEN /\ Len(store') = Len(store)
                  /\ Cardinality({i \in 1..Len(store) :
                         ObjectIdStr[store[i]._id] = body'[p].booking_id}) = 1
                  /\ \A i \in 1..Len(store) :
                         ObjectIdStr[store[i]._id] # body'[p].booking_id
                         => store'[i] = store[i]
             ELSE store' = store]_vars

\* a pay request has changed one of two bookings while the other worker is
\* in the middle of the reads of dashboard
C7_Witness ==
    \E p, q \in Procs :
        /\ pc[p] = "done"
        /\ body[p].op = "pay"
        /\ resp[p].code = 200
        /\ Len(store) = 2
        /\ \E i, j \in 1..2 : store[i].status = "Paid" /\ store[j].status # "Paid"
        /\ pc[q] = "chart"
        /\ local[q].total_bookings < Len(store)

\* C8: pay fails with "Invalid booking id" for a string that is no
\* identifier, with the distinct "Booking not found" for an identifier no
\* booking has, and otherwise sets the status "Paid" and the payment method
\* of that booking, whatever its status was, leaving its room type, dates
\* and guest count
C8_PayOutcome ==
    [][Serves("pay")
       => LET q == body'[Worker]
              a == resp'[Worker]
              hit == {i \in 1..Len(store) : ObjectIdStr[store[i]._id] = q.booking_id}
          IN  IF q.booking_id \notin {ObjectIdStr[i] : i \in 1..Len(ObjectIdStr)}
              THEN a.code = 400 /\ a.detail = "Invalid booking id" /\ store' = store
              ELSE IF hit = {}
              THEN a.code = 404 /\ a.detail = "Booking not found" /\ store' = store
              ELSE /\ a.code = 200
                   /\ Len(store') = Len(store)
                   /\ \A i \in hit :
                        store'[i] = [store[i] EXCEPT !.status = "Paid",
                                                     !.payment_method = q.method]]_vars

\* a booking that no book request of this run made has been paid
C8_Witness ==
    /\ Served("pay")
    /\ resp[Worker].code = 200
    /\ Len(store) = 1
    /\ store[1].guests = 1
    /\ store[1].status = "Paid"
    /\ store[1].payment_method \in PayMethods

\* C9: every stored booking has a guest count of at least 1
C9_GuestsAtLeastOne ==
    \A i \in 1..Len(store) : store[i].guests >= 1

\* C10: also when book requests interleave, every stored booking has
\* check_in < check_out, the catalog's spelling of a known room type and a
\* guest count within the capacity of that room type; a request refused for
\* its dates conflicts with a booking stored under the catalog's spelling
C10_StoredBookingsValid ==
    /\ \A i \in 1..Len(store) :
          /\ store[i].check_in < store[i].check_out
          /\ store[i].room_type \in CatalogTypes
          /\ store[i].guests <= CapacityOf(store[i].room_type)
    /\ \A p \in Procs :
          (Booked(p) /\ resp[p].code = 409)
          => Overlapping(store, TypeOf(body[p]), body[p]) # {}

\* a request that spells the room type in lower case is stored under the
\* catalog's spelling, next to a booking made under the catalog's spelling
C10_Witness ==
    \E p \in Procs :
        /\ pc[p] = "done"
        /\ body[p].op = "book"
        /\ resp[p].code = 200
        /\ body[p].room_type = "deluxe"
        /\ Len(store) = 2
        /\ store[1].room_type = "Deluxe"
        /\ store[2].room_type = "Deluxe"

=============================================================================
